---- MODULE Spec2Model ----
(***************************************************************************)
(* State-machine model of the two notebooks of the Falcon-LLM repository:  *)
(*   - Chapter02/Task_Tuning_Falcon.ipynb: the fine-tuning run (load the   *)
(*     model, wrap it with CustomClassifier, build GlueDataset objects,    *)
(*     train for num_epochs epochs, evaluate, torch.save);                 *)
(*   - the acquisition notebook (pipeline, direct load, file download).    *)
(* Each notebook is a single-threaded sequence of cells; a variable pc     *)
(* holds the position in the cell sequence.  Calls into torch and          *)
(* transformers are opaque: their numeric results (losses, updated         *)
(* weights, predicted labels) are drawn nondeterministically.              *)
(***************************************************************************)
EXTENDS Integers, Sequences, FiniteSets, TLC

(* ------------------------------ bounds --------------------------------- *)

\* largest training-set size (len(train_dataset)) explored by the full run
MaxTrain == 17
\* largest evaluation-set size explored by the full run
MaxEvalRun == 1
\* largest evaluation-set size explored by the evaluation-only specification
MaxEval == 9
\* abstract weight values are 0..MaxParam
MaxParam == 1
\* largest number of records of a raw dataset given to GlueDataset
MaxRecords == 2
\* largest max_length given to GlueDataset
MaxMaxLen == 4
\* largest number of chunks of the streamed HTTP response
MaxChunks == 3

(* -------------------------- program constants -------------------------- *)

num_epochs == 3
batch_size == 8
num_labels == 2
chunk_size == 10000
default_max_length == 128

Labels == 0 .. (num_labels - 1)
ParamVals == 0 .. MaxParam
\* cross_entropy returns a float; three abstract values stand for it
LossVals == {"low", "high", "nan"}

Min(a, b) == IF a < b THEN a ELSE b

VARIABLES
    (* fine-tuning notebook *)
    pc,             \* position in the cell sequence
    exc,            \* the unhandled exception that ended the run, or "none"
    train_len,      \* len(train_dataset)
    eval_labels,    \* eval_dataset.labels
    loaders,        \* train_loader / eval_loader exist
    mode,           \* the .training flag of base_model and of classifier
    base_params,    \* weights of model.base_model
    head_params,    \* weights of model.classifier (the Linear layer)
    grads,          \* .grad of the parameters: the batches accumulated in it
    opt_steps,      \* optimizer steps applied (AdamW's step count)
    epoch,          \* loop variable of the training loop, -1 before it
    it_pos,         \* examples the current loader iterator has yielded
    batch,          \* the variable batch
    logits,         \* the variable logits
    loss,           \* the variable loss
    predictions,    \* the variable predictions
    eval_seen,      \* per evaluation example: the predicted labels so far
    total_eval_accuracy,
    avg_accuracy,   \* <<numerator, denominator>> of the float, <<>> if unset
    stdout,         \* printed lines
    saved_file,     \* content of ./my_custom_model_falcon.pt, <<>> if absent
    (* GlueDataset under test *)
    pcD, raw_datasets, max_length, ds_inputs, ds_labels, ds_result,
    (* acquisition notebook *)
    pcA, excA, pipe, tokenizerA, modelA, response, chunk_i, file, generations,
    stdoutA

runVars == <<pc, exc, train_len, eval_labels, loaders, mode, base_params,
             head_params, grads, opt_steps, epoch, it_pos, batch, logits, loss,
             predictions, eval_seen, total_eval_accuracy, avg_accuracy, stdout,
             saved_file>>
dataVars == <<pcD, raw_datasets, max_length, ds_inputs, ds_labels, ds_result>>
acqVars == <<pcA, excA, pipe, tokenizerA, modelA, response, chunk_i, file,
             generations, stdoutA>>
vars == <<runVars, dataVars, acqVars>>

(* ----------------------- values of the run's variables ------------------ *)

NoBatch == [epoch |-> -1, lo |-> 0, hi |-> 0, eval |-> FALSE]
NoLogits == [of |-> NoBatch, dropout |-> FALSE, grad_fn |-> FALSE]
NoLoss == [of |-> NoBatch, val |-> "unset", grad_fn |-> FALSE]

\* size of a batch
BatchLen(b) == b.hi - b.lo + 1

\* model.state_dict(): every parameter of the wrapper, base model included
state_dict == [base_model |-> base_params, classifier |-> head_params]

(* ================= GlueDataset and the tokenizer it calls ================ *)

\* sentences the raw records are drawn from: sequences of words
Sentences == {<<"a">>, <<"b", "a", "b">>}

\* the tokenizer's vocabulary; the padding token is the EOS token
eos_token_id == 0
pad_token_id == eos_token_id
Vocab(w) == CASE w = "a" -> 1 [] w = "b" -> 2

\* token ids of one sentence
Tokenize(sentence) == [i \in 1 .. Len(sentence) |-> Vocab(sentence[i])]

Front(q) == SubSeq(q, 1, Len(q) - 1)

\* TruncatePair with truncation off
TruncatePairOff(ids, pair_ids, maxlen) == <<ids, pair_ids>>

\* truncation=True (longest_first): while the pair is longer than maxlen,
\* drop the last token of the longer sequence, of the second one on a tie
RECURSIVE TruncatePair(_, _, _)
TruncatePair(ids, pair_ids, maxlen) ==
    IF Len(ids) + Len(pair_ids) <= maxlen THEN <<ids, pair_ids>>
    ELSE IF Len(ids) > Len(pair_ids)
         THEN TruncatePair(Front(ids), pair_ids, maxlen)
         ELSE TruncatePair(ids, Front(pair_ids), maxlen)

\* padding='max_length': pad on the right up to maxlen
Pad(ids, maxlen, fill) ==
    ids \o [i \in 1 .. (maxlen - Len(ids)) |-> fill]

\* tokenizer(sentence1, sentence2, padding='max_length', truncation=True,
\*           max_length=maxlen, return_tensors="pt"): tensors of shape
\* [1, maxlen], a tensor being the sequence of its rows
Tokenizer(sentence1, sentence2, maxlen) ==
    LET t == TruncatePair(Tokenize(sentence1), Tokenize(sentence2), maxlen)
        ids == t[1] \o t[2]
    IN  [input_ids |-> <<Pad(ids, maxlen, pad_token_id)>>,
         attention_mask |-> <<Pad([i \in 1 .. Len(ids) |-> 1], maxlen, 0)>>]

\* tensor.squeeze(0): drops dimension 0 when its size is 1
Squeeze0(t) == IF Len(t) = 1 THEN t[1] ELSE t

\* zip(a, b, c) stops at the shortest of its arguments
ZipLen(a, b, c) == Min(Len(a), Min(Len(b), Len(c)))

\* GlueLabels with every label inserted at the front of self.labels
GlueLabelsReversed(raw) ==
    LET n == ZipLen(raw.sentence1, raw.sentence2, raw.label)
    IN  [i \in 1 .. n |-> raw.label[n + 1 - i]]

\* GlueDataset.__init__: self.inputs and self.labels, one entry per zipped
\* record, in order
GlueInputs(raw, maxlen) ==
    [i \in 1 .. ZipLen(raw.sentence1, raw.sentence2, raw.label) |->
        Tokenizer(raw.sentence1[i], raw.sentence2[i], maxlen)]
GlueLabels(raw) ==
    [i \in 1 .. ZipLen(raw.sentence1, raw.sentence2, raw.label) |-> raw.label[i]]

\* GlueDataset.__len__
GlueLen(inputs) == Len(inputs)

\* Python list indexing: idx counts from 0, a negative idx from the end;
\* the result is the position from 1, or 0 for IndexError
ListPos(idx, n) ==
    IF 0 <= idx /\ idx < n THEN idx + 1
    ELSE IF idx < 0 /\ -idx <= n THEN n + idx + 1
    ELSE 0

\* GlueDataset.__getitem__ for a position ListPos accepts
GlueItem(inputs, labels, k) ==
    [input_ids |-> Squeeze0(inputs[k].input_ids),
     attention_mask |-> Squeeze0(inputs[k].attention_mask),
     labels |-> labels[k]]

NoResult == [op |-> "none", idx |-> 0, len |-> 0, item |-> <<>>]

(* ===================== fine-tuning notebook: the cells ================== *)

InitRun ==
    /\ pc = "load_model"
    /\ exc = "none"
    /\ train_len = 0
    /\ eval_labels = <<>>
    /\ loaders = FALSE
    /\ mode = [base |-> FALSE, head |-> FALSE]
    /\ base_params = 0
    /\ head_params = 0
    /\ grads = <<>>
    /\ opt_steps = 0
    /\ epoch = -1
    /\ it_pos = 0
    /\ batch = NoBatch
    /\ logits = NoLogits
    /\ loss = NoLoss
    /\ predictions = <<>>
    /\ eval_seen = <<>>
    /\ total_eval_accuracy = 0
    /\ avg_accuracy = <<>>
    /\ stdout = <<>>
    /\ saved_file = <<>>

\* AutoTokenizer / AutoModel.from_pretrained: pre-trained weights, whatever
\* they are; from_pretrained returns the base model in evaluation mode
LoadModel ==
    /\ pc = "load_model"
    /\ \E w \in ParamVals : base_params' = w
    /\ mode' = [mode EXCEPT !.base = FALSE]
    /\ pc' = "define_classifier"
    /\ UNCHANGED <<dataVars, acqVars>>
    /\ UNCHANGED <<exc, train_len, eval_labels, loaders, head_params, grads,
                   opt_steps, epoch, it_pos, batch, logits, loss, predictions,
                   eval_seen, total_eval_accuracy, avg_accuracy, stdout,
                   saved_file>>

\* model = CustomClassifier(base_model, num_labels): a new module is in
\* training mode, its Linear layer randomly initialised; the base model is
\* kept as it is
DefineClassifier ==
    /\ pc = "define_classifier"
    /\ \E w \in ParamVals : head_params' = w
    /\ mode' = [mode EXCEPT !.head = TRUE]
    /\ pc' = "load_data"
    /\ UNCHANGED <<dataVars, acqVars>>
    /\ UNCHANGED <<exc, train_len, eval_labels, loaders, base_params, grads,
                   opt_steps, epoch, it_pos, batch, logits, loss, predictions,
                   eval_seen, total_eval_accuracy, avg_accuracy, stdout,
                   saved_file>>

\* every sequence of labels of length 0..n
LabelSeqs(n) == UNION {[1 .. k -> Labels] : k \in 0 .. n}

\* a raw split with the given label column
RawSplit(labels) ==
    [sentence1 |-> [i \in 1 .. Len(labels) |-> <<"a">>],
     sentence2 |-> [i \in 1 .. Len(labels) |-> <<"b", "a", "b">>],
     label |-> labels]

\* load_dataset and the two GlueDataset constructions (max_length left at
\* its default).  Of train_dataset the run uses the length only (the
\* training labels enter the opaque loss), of eval_dataset the labels.
LoadData ==
    /\ pc = "load_data"
    /\ \E n \in 0 .. MaxTrain :
          train_len' = GlueLen(GlueInputs(RawSplit([i \in 1 .. n |-> 0]),
                                          default_max_length))
    /\ \E ls \in LabelSeqs(MaxEvalRun) : eval_labels' = GlueLabels(RawSplit(ls))
    /\ pc' = "loaders"
    /\ UNCHANGED <<dataVars, acqVars>>
    /\ UNCHANGED <<exc, loaders, mode, base_params, head_params, grads,
                   opt_steps, epoch, it_pos, batch, logits, loss, predictions,
                   eval_seen, total_eval_accuracy, avg_accuracy, stdout,
                   saved_file>>

\* DataLoader(train_dataset, batch_size=8, shuffle=True) builds a
\* RandomSampler, which rejects an empty dataset (ValueError); the
\* sequential eval_loader accepts one
SetupLoaders ==
    /\ pc = "loaders"
    /\ \/ /\ train_len > 0
          /\ loaders' = TRUE
          /\ pc' = "optimizer"
          /\ exc' = exc
       \/ /\ train_len = 0
          /\ loaders' = loaders
          /\ pc' = "failed"
          /\ exc' = "ValueError"
    /\ UNCHANGED <<dataVars, acqVars>>
    /\ UNCHANGED <<train_len, eval_labels, mode, base_params, head_params,
                   grads, opt_steps, epoch, it_pos, batch, logits, loss,
                   predictions, eval_seen, total_eval_accuracy, avg_accuracy,
                   stdout, saved_file>>

\* device, model.to(device), optimizer = AdamW(model.parameters(), lr=5e-5)
SetupOptimizer ==
    /\ pc = "optimizer"
    /\ pc' = "epoch_head"
    /\ UNCHANGED <<dataVars, acqVars>>
    /\ UNCHANGED <<exc, train_len, eval_labels, loaders, mode, base_params,
                   head_params, grads, opt_steps, epoch, it_pos, batch, logits,
                   loss, predictions, eval_seen, total_eval_accuracy,
                   avg_accuracy, stdout, saved_file>>

(* --------------------------- the training loop ------------------------- *)

\* EpochHead with an off-by-one loop bound: one epoch too many
EpochHeadOffByOne ==
    /\ pc = "epoch_head"
    /\ \/ /\ epoch + 1 <= num_epochs
          /\ epoch' = epoch + 1
          /\ pc' = "train_mode"
       \/ /\ ~(epoch + 1 <= num_epochs)
          /\ epoch' = epoch
          /\ pc' = "eval_mode"
    /\ UNCHANGED <<dataVars, acqVars>>
    /\ UNCHANGED <<exc, train_len, eval_labels, loaders, mode, base_params,
                   head_params, grads, opt_steps, it_pos, batch, logits, loss,
                   predictions, eval_seen, total_eval_accuracy, avg_accuracy,
                   stdout, saved_file>>

\* for epoch in range(num_epochs)
EpochHead ==
    /\ pc = "epoch_head"
    /\ \/ /\ epoch + 1 < num_epochs
          /\ epoch' = epoch + 1
          /\ pc' = "train_mode"
       \/ /\ ~(epoch + 1 < num_epochs)
          /\ epoch' = epoch
          /\ pc' = "eval_mode"
    /\ UNCHANGED <<dataVars, acqVars>>
    /\ UNCHANGED <<exc, train_len, eval_labels, loaders, mode, base_params,
                   head_params, grads, opt_steps, it_pos, batch, logits, loss,
                   predictions, eval_seen, total_eval_accuracy, avg_accuracy,
                   stdout, saved_file>>

\* model.train(): sets .training on the wrapper and on every submodule
TrainMode ==
    /\ pc = "train_mode"
    /\ mode' = [base |-> TRUE, head |-> TRUE]
    /\ pc' = "train_iter"
    /\ UNCHANGED <<dataVars, acqVars>>
    /\ UNCHANGED <<exc, train_len, eval_labels, loaders, base_params,
                   head_params, grads, opt_steps, epoch, it_pos, batch, logits,
                   loss, predictions, eval_seen, total_eval_accuracy,
                   avg_accuracy, stdout, saved_file>>

\* iter(train_loader): a fresh iterator over a fresh random permutation;
\* positions lo..hi of a batch are positions in that permutation
TrainIter ==
    /\ pc = "train_iter"
    /\ it_pos' = 0
    /\ pc' = "batch_head"
    /\ UNCHANGED <<dataVars, acqVars>>
    /\ UNCHANGED <<exc, train_len, eval_labels, loaders, mode, base_params,
                   head_params, grads, opt_steps, epoch, batch, logits, loss,
                   predictions, eval_seen, total_eval_accuracy, avg_accuracy,
                   stdout, saved_file>>

\* the next batch of a loader over n examples, after pos of them
NextBatch(pos, n, e, isEval) ==
    [epoch |-> e, lo |-> pos + 1, hi |-> Min(pos + batch_size, n),
     eval |-> isEval]

\* for batch in train_loader
BatchHead ==
    /\ pc = "batch_head"
    /\ \/ /\ it_pos < train_len
          /\ batch' = NextBatch(it_pos, train_len, epoch, FALSE)
          /\ it_pos' = batch'.hi
          /\ pc' = "zero_grad"
       \/ /\ ~(it_pos < train_len)
          /\ UNCHANGED <<batch, it_pos>>
          /\ pc' = "print_epoch"
    /\ UNCHANGED <<dataVars, acqVars>>
    /\ UNCHANGED <<exc, train_len, eval_labels, loaders, mode, base_params,
                   head_params, grads, opt_steps, epoch, logits, loss,
                   predictions, eval_seen, total_eval_accuracy, avg_accuracy,
                   stdout, saved_file>>

\* ZeroGrad without the clear: gradients pile up across batches
ZeroGradSkipped ==
    /\ pc = "zero_grad"
    /\ pc' = "forward"
    /\ UNCHANGED <<dataVars, acqVars>>
    /\ UNCHANGED <<exc, train_len, eval_labels, loaders, mode, base_params,
                   head_params, grads, opt_steps, epoch, it_pos, batch, logits,
                   loss, predictions, eval_seen, total_eval_accuracy,
                   avg_accuracy, stdout, saved_file>>

\* optimizer.zero_grad()
ZeroGrad ==
    /\ pc = "zero_grad"
    /\ grads' = <<>>
    /\ pc' = "forward"
    /\ UNCHANGED <<dataVars, acqVars>>
    /\ UNCHANGED <<exc, train_len, eval_labels, loaders, mode, base_params,
                   head_params, opt_steps, epoch, it_pos, batch, logits, loss,
                   predictions, eval_seen, total_eval_accuracy, avg_accuracy,
                   stdout, saved_file>>

\* CustomClassifier.forward on the batch: nn.Dropout is active iff the
\* classifier is in training mode; the result carries an autograd graph iff
\* gradient tracking is enabled
Forward(b, grad_enabled) ==
    [of |-> b, dropout |-> mode.head, grad_fn |-> grad_enabled]

\* input_ids, attention_mask, labels to the device; logits = model(...)
TrainForward ==
    /\ pc = "forward"
    /\ logits' = Forward(batch, TRUE)
    /\ pc' = "loss"
    /\ UNCHANGED <<dataVars, acqVars>>
    /\ UNCHANGED <<exc, train_len, eval_labels, loaders, mode, base_params,
                   head_params, grads, opt_steps, epoch, it_pos, batch, loss,
                   predictions, eval_seen, total_eval_accuracy, avg_accuracy,
                   stdout, saved_file>>

\* loss = cross_entropy(logits, labels)
ComputeLoss ==
    /\ pc = "loss"
    /\ \E v \in LossVals :
          loss' = [of |-> logits.of, val |-> v, grad_fn |-> logits.grad_fn]
    /\ pc' = "backward"
    /\ UNCHANGED <<dataVars, acqVars>>
    /\ UNCHANGED <<exc, train_len, eval_labels, loaders, mode, base_params,
                   head_params, grads, opt_steps, epoch, it_pos, batch, logits,
                   predictions, eval_seen, total_eval_accuracy, avg_accuracy,
                   stdout, saved_file>>

\* loss.backward(): adds the batch's gradients to .grad of every parameter
\* (base model and head); a loss without a graph cannot be back-propagated
Backward ==
    /\ pc = "backward"
    /\ loss.grad_fn
    /\ grads' = Append(grads, loss.of)
    /\ pc' = "step"
    /\ UNCHANGED <<dataVars, acqVars>>
    /\ UNCHANGED <<exc, train_len, eval_labels, loaders, mode, base_params,
                   head_params, opt_steps, epoch, it_pos, batch, logits, loss,
                   predictions, eval_seen, total_eval_accuracy, avg_accuracy,
                   stdout, saved_file>>

\* optimizer.step(): AdamW updates every parameter it was given
\* (model.parameters(): base model and head) from its .grad
OptimizerStep ==
    /\ pc = "step"
    /\ \E wb \in ParamVals, wh \in ParamVals :
          /\ base_params' = wb
          /\ head_params' = wh
    /\ opt_steps' = opt_steps + 1
    /\ pc' = "batch_head"
    /\ UNCHANGED <<dataVars, acqVars>>
    /\ UNCHANGED <<exc, train_len, eval_labels, loaders, mode, grads, epoch,
                   it_pos, batch, logits, loss, predictions, eval_seen,
                   total_eval_accuracy, avg_accuracy, stdout, saved_file>>

\* print(f"Epoch {epoch+1} completed.")
PrintEpoch ==
    /\ pc = "print_epoch"
    /\ stdout' = Append(stdout, [kind |-> "epoch", a |-> epoch + 1, b |-> 0])
    /\ pc' = "epoch_head"
    /\ UNCHANGED <<dataVars, acqVars>>
    /\ UNCHANGED <<exc, train_len, eval_labels, loaders, mode, base_params,
                   head_params, grads, opt_steps, epoch, it_pos, batch, logits,
                   loss, predictions, eval_seen, total_eval_accuracy,
                   avg_accuracy, saved_file>>

(* -------------------------- the evaluation loop ------------------------ *)

\* EvalMode without the call of model.eval()
EvalModeForgotten ==
    /\ pc = "eval_mode"
    /\ pc' = "eval_init"
    /\ UNCHANGED <<dataVars, acqVars>>
    /\ UNCHANGED <<exc, train_len, eval_labels, loaders, mode, base_params,
                   head_params, grads, opt_steps, epoch, it_pos, batch, logits,
                   loss, predictions, eval_seen, total_eval_accuracy,
                   avg_accuracy, stdout, saved_file>>

\* model.eval(): clears .training on the wrapper and on every submodule
EvalMode ==
    /\ pc = "eval_mode"
    /\ mode' = [base |-> FALSE, head |-> FALSE]
    /\ pc' = "eval_init"
    /\ UNCHANGED <<dataVars, acqVars>>
    /\ UNCHANGED <<exc, train_len, eval_labels, loaders, base_params,
                   head_params, grads, opt_steps, epoch, it_pos, batch, logits,
                   loss, predictions, eval_seen, total_eval_accuracy,
                   avg_accuracy, stdout, saved_file>>

\* total_eval_accuracy = 0; iter(eval_loader): sequential, dataset order
EvalInit ==
    /\ pc = "eval_init"
    /\ total_eval_accuracy' = 0
    /\ it_pos' = 0
    /\ eval_seen' = [i \in 1 .. Len(eval_labels) |-> <<>>]
    /\ pc' = "eval_head"
    /\ UNCHANGED <<dataVars, acqVars>>
    /\ UNCHANGED <<exc, train_len, eval_labels, loaders, mode, base_params,
                   head_params, grads, opt_steps, epoch, batch, logits, loss,
                   predictions, avg_accuracy, stdout, saved_file>>

\* for batch in eval_loader
EvalHead ==
    /\ pc = "eval_head"
    /\ \/ /\ it_pos < Len(eval_labels)
          /\ batch' = NextBatch(it_pos, Len(eval_labels), epoch, TRUE)
          /\ it_pos' = batch'.hi
          /\ pc' = "eval_forward"
       \/ /\ ~(it_pos < Len(eval_labels))
          /\ UNCHANGED <<batch, it_pos>>
          /\ pc' = "accuracy"
    /\ UNCHANGED <<dataVars, acqVars>>
    /\ UNCHANGED <<exc, train_len, eval_labels, loaders, mode, base_params,
                   head_params, grads, opt_steps, epoch, logits, loss,
                   predictions, eval_seen, total_eval_accuracy, avg_accuracy,
                   stdout, saved_file>>

\* EvalForward as a copy of the training batch body: forward, backward and
\* optimizer step
EvalForwardWithUpdate ==
    /\ pc = "eval_forward"
    /\ logits' = Forward(batch, TRUE)
    /\ grads' = Append(grads, batch)
    /\ \E wb \in ParamVals, wh \in ParamVals :
          /\ base_params' = wb
          /\ head_params' = wh
    /\ opt_steps' = opt_steps + 1
    /\ pc' = "eval_argmax"
    /\ UNCHANGED <<dataVars, acqVars>>
    /\ UNCHANGED <<exc, train_len, eval_labels, loaders, mode, epoch, it_pos,
                   batch, loss, predictions, eval_seen, total_eval_accuracy,
                   avg_accuracy, stdout, saved_file>>

\* with torch.no_grad(): tensors to the device; logits = model(...)
EvalForward ==
    /\ pc = "eval_forward"
    /\ logits' = Forward(batch, FALSE)
    /\ pc' = "eval_argmax"
    /\ UNCHANGED <<dataVars, acqVars>>
    /\ UNCHANGED <<exc, train_len, eval_labels, loaders, mode, base_params,
                   head_params, grads, opt_steps, epoch, it_pos, batch, loss,
                   predictions, eval_seen, total_eval_accuracy, avg_accuracy,
                   stdout, saved_file>>

\* predictions = torch.argmax(logits, dim=-1): one label per example of the
\* batch the logits were computed for, whatever the network answers
EvalArgmax ==
    /\ pc = "eval_argmax"
    /\ \E p \in [1 .. BatchLen(logits.of) -> Labels] :
          /\ predictions' = p
          /\ eval_seen' =
                [i \in DOMAIN eval_seen |->
                    IF i \in logits.of.lo .. logits.of.hi
                    THEN Append(eval_seen[i], p[i - logits.of.lo + 1])
                    ELSE eval_seen[i]]
    /\ pc' = "eval_accumulate"
    /\ UNCHANGED <<dataVars, acqVars>>
    /\ UNCHANGED <<exc, train_len, eval_labels, loaders, mode, base_params,
                   head_params, grads, opt_steps, epoch, it_pos, batch, logits,
                   loss, total_eval_accuracy, avg_accuracy, stdout, saved_file>>

\* torch.sum(predictions == labels).item() for the labels of batch b
NumCorrect(p, b) ==
    Cardinality({k \in 1 .. Len(p) : p[k] = eval_labels[b.lo + k - 1]})

\* total_eval_accuracy += torch.sum(predictions == labels).item()
EvalAccumulate ==
    /\ pc = "eval_accumulate"
    /\ total_eval_accuracy' = total_eval_accuracy + NumCorrect(predictions, batch)
    /\ pc' = "eval_head"
    /\ UNCHANGED <<dataVars, acqVars>>
    /\ UNCHANGED <<exc, train_len, eval_labels, loaders, mode, base_params,
                   head_params, grads, opt_steps, epoch, it_pos, batch, logits,
                   loss, predictions, eval_seen, avg_accuracy, stdout,
                   saved_file>>

\* Accuracy dividing by len(eval_loader), the number of batches
AccuracyPerBatch ==
    /\ pc = "accuracy"
    /\ \/ /\ Len(eval_labels) # 0
          /\ avg_accuracy' = <<total_eval_accuracy,
                               (Len(eval_labels) + batch_size - 1) \div batch_size>>
          /\ pc' = "print_accuracy"
          /\ exc' = exc
       \/ /\ Len(eval_labels) = 0
          /\ avg_accuracy' = avg_accuracy
          /\ pc' = "failed"
          /\ exc' = "ZeroDivisionError"
    /\ UNCHANGED <<dataVars, acqVars>>
    /\ UNCHANGED <<train_len, eval_labels, loaders, mode, base_params,
                   head_params, grads, opt_steps, epoch, it_pos, batch, logits,
                   loss, predictions, eval_seen, total_eval_accuracy, stdout,
                   saved_file>>

\* avg_accuracy = total_eval_accuracy / len(eval_loader.dataset): a true
\* division, kept as numerator and denominator; ZeroDivisionError on an
\* empty dataset
Accuracy ==
    /\ pc = "accuracy"
    /\ \/ /\ Len(eval_labels) # 0
          /\ avg_accuracy' = <<total_eval_accuracy, Len(eval_labels)>>
          /\ pc' = "print_accuracy"
          /\ exc' = exc
       \/ /\ Len(eval_labels) = 0
          /\ avg_accuracy' = avg_accuracy
          /\ pc' = "failed"
          /\ exc' = "ZeroDivisionError"
    /\ UNCHANGED <<dataVars, acqVars>>
    /\ UNCHANGED <<train_len, eval_labels, loaders, mode, base_params,
                   head_params, grads, opt_steps, epoch, it_pos, batch, logits,
                   loss, predictions, eval_seen, total_eval_accuracy, stdout,
                   saved_file>>

\* print(f"Accuracy on evaluation data: {avg_accuracy:.4f}")
PrintAccuracy ==
    /\ pc = "print_accuracy"
    /\ stdout' = Append(stdout, [kind |-> "accuracy", a |-> avg_accuracy[1],
                                 b |-> avg_accuracy[2]])
    /\ pc' = "save"
    /\ UNCHANGED <<dataVars, acqVars>>
    /\ UNCHANGED <<exc, train_len, eval_labels, loaders, mode, base_params,
                   head_params, grads, opt_steps, epoch, it_pos, batch, logits,
                   loss, predictions, eval_seen, total_eval_accuracy,
                   avg_accuracy, saved_file>>

\* Save writing model.classifier.state_dict() only
SaveHeadOnly ==
    /\ pc = "save"
    /\ saved_file' = <<[classifier |-> head_params]>>
    /\ pc' = "done"
    /\ UNCHANGED <<dataVars, acqVars>>
    /\ UNCHANGED <<exc, train_len, eval_labels, loaders, mode, base_params,
                   head_params, grads, opt_steps, epoch, it_pos, batch, logits,
                   loss, predictions, eval_seen, total_eval_accuracy,
                   avg_accuracy, stdout>>

\* torch.save(model.state_dict(), "./my_custom_model_falcon.pt")
Save ==
    /\ pc = "save"
    /\ saved_file' = <<state_dict>>
    /\ pc' = "done"
    /\ UNCHANGED <<dataVars, acqVars>>
    /\ UNCHANGED <<exc, train_len, eval_labels, loaders, mode, base_params,
                   head_params, grads, opt_steps, epoch, it_pos, batch, logits,
                   loss, predictions, eval_seen, total_eval_accuracy,
                   avg_accuracy, stdout>>

(* ------------------------------ failures ------------------------------- *)

\* Fail with the exception caught and passed over: the run goes on
FailSwallowed ==
    /\ pc \notin {"done", "failed"}
    /\ exc' = "Exception"
    /\ pc' = pc
    /\ UNCHANGED <<dataVars, acqVars>>
    /\ UNCHANGED <<train_len, eval_labels, loaders, mode, base_params,
                   head_params, grads, opt_steps, epoch, it_pos, batch, logits,
                   loss, predictions, eval_seen, total_eval_accuracy,
                   avg_accuracy, stdout, saved_file>>

\* No cell has a try/except: an exception raised by the statement at pc
\* (network failure, out of memory, shape or device mismatch, missing file)
\* propagates and ends the run where it is
Fail ==
    /\ pc \notin {"done", "failed"}
    /\ exc' = "Exception"
    /\ pc' = "failed"
    /\ UNCHANGED <<dataVars, acqVars>>
    /\ UNCHANGED <<train_len, eval_labels, loaders, mode, base_params,
                   head_params, grads, opt_steps, epoch, it_pos, batch, logits,
                   loss, predictions, eval_seen, total_eval_accuracy,
                   avg_accuracy, stdout, saved_file>>

(* ====================== GlueDataset as an object ======================= *)

\* a raw split: columns of equal length
RawDatasets ==
    UNION {
        {[sentence1 |-> [i \in 1 .. n |-> rows[i][1]],
          sentence2 |-> [i \in 1 .. n |-> rows[i][2]],
          label |-> [i \in 1 .. n |-> rows[i][3]]] :
            rows \in [1 .. n -> Sentences \X Sentences \X Labels]} :
        n \in 0 .. MaxRecords}

InitData ==
    /\ pcD = "raw"
    /\ raw_datasets \in RawDatasets
    /\ max_length \in 1 .. MaxMaxLen
    /\ ds_inputs = <<>>
    /\ ds_labels = <<>>
    /\ ds_result = NoResult

IdleData ==
    /\ pcD = "idle"
    /\ raw_datasets = [sentence1 |-> <<>>, sentence2 |-> <<>>, label |-> <<>>]
    /\ max_length = 1
    /\ ds_inputs = <<>>
    /\ ds_labels = <<>>
    /\ ds_result = NoResult

\* GlueDataset(tokenizer, raw_datasets, max_length)
GlueDatasetInit ==
    /\ pcD = "raw"
    /\ ds_inputs' = GlueInputs(raw_datasets, max_length)
    /\ ds_labels' = GlueLabels(raw_datasets)
    /\ pcD' = "built"
    /\ UNCHANGED <<runVars, acqVars>>
    /\ UNCHANGED <<raw_datasets, max_length, ds_result>>

\* len(dataset)
CallLen ==
    /\ pcD = "built"
    /\ ds_result' = [op |-> "len", idx |-> 0, len |-> GlueLen(ds_inputs),
                     item |-> <<>>]
    /\ UNCHANGED <<runVars, acqVars>>
    /\ UNCHANGED <<pcD, raw_datasets, max_length, ds_inputs, ds_labels>>

\* dataset[idx]
CallGetItem ==
    /\ pcD = "built"
    /\ \E idx \in -(Len(ds_inputs) + 1) .. Len(ds_inputs) :
          LET k == ListPos(idx, Len(ds_inputs))
          IN  \/ /\ k # 0
                 /\ ds_result' = [op |-> "getitem", idx |-> idx, len |-> 0,
                                  item |-> <<GlueItem(ds_inputs, ds_labels, k)>>]
              \/ /\ k = 0
                 /\ ds_result' = [op |-> "IndexError", idx |-> idx, len |-> 0,
                                  item |-> <<>>]
    /\ UNCHANGED <<runVars, acqVars>>
    /\ UNCHANGED <<pcD, raw_datasets, max_length, ds_inputs, ds_labels>>

(* ======================== acquisition notebook ========================= *)

\* sizes of the chunks response.iter_content(chunk_size) may yield
ChunkSizes == {0, 1, chunk_size}

InitAcq ==
    /\ pcA = "pipeline"
    /\ excA = "none"
    /\ pipe = FALSE
    /\ tokenizerA = FALSE
    /\ modelA = FALSE
    /\ response = <<>>
    /\ chunk_i = 0
    /\ file = [exists |-> FALSE, open |-> FALSE, bytes |-> 0]
    /\ generations = 0
    /\ stdoutA = <<>>

IdleAcq ==
    /\ pcA = "idle"
    /\ excA = "none"
    /\ pipe = FALSE
    /\ tokenizerA = FALSE
    /\ modelA = FALSE
    /\ response = <<>>
    /\ chunk_i = 0
    /\ file = [exists |-> FALSE, open |-> FALSE, bytes |-> 0]
    /\ generations = 0
    /\ stdoutA = <<>>

\* AcqPipeline that also calls the pipeline on a prompt
AcqPipelineGenerates ==
    /\ pcA = "pipeline"
    /\ pipe' = TRUE
    /\ generations' = generations + 1
    /\ pcA' = "direct_load"
    /\ UNCHANGED <<runVars, dataVars>>
    /\ UNCHANGED <<excA, tokenizerA, modelA, response, chunk_i, file, stdoutA>>

\* pipe = pipeline("text-generation", model="tiiuae/falcon-rw-1b"): the
\* pipeline object is built; it is not called
AcqPipeline ==
    /\ pcA = "pipeline"
    /\ pipe' = TRUE
    /\ pcA' = "direct_load"
    /\ UNCHANGED <<runVars, dataVars>>
    /\ UNCHANGED <<excA, tokenizerA, modelA, response, chunk_i, file,
                   generations, stdoutA>>

\* tokenizer = AutoTokenizer.from_pretrained(...);
\* model = AutoModelForCausalLM.from_pretrained(...)
AcqDirectLoad ==
    /\ pcA = "direct_load"
    /\ tokenizerA' = TRUE
    /\ modelA' = TRUE
    /\ pcA' = "download_get"
    /\ UNCHANGED <<runVars, dataVars>>
    /\ UNCHANGED <<excA, pipe, response, chunk_i, file, generations, stdoutA>>

\* response = requests.get(url, stream=True): the body arrives as chunks
AcqGet ==
    /\ pcA = "download_get"
    /\ \E n \in 0 .. MaxChunks : \E r \in [1 .. n -> ChunkSizes] : response' = r
    /\ pcA' = "download_open"
    /\ UNCHANGED <<runVars, dataVars>>
    /\ UNCHANGED <<excA, pipe, tokenizerA, modelA, chunk_i, file, generations,
                   stdoutA>>

\* with open(model_path, 'wb') as f: creates or truncates the file
AcqOpen ==
    /\ pcA = "download_open"
    /\ file' = [exists |-> TRUE, open |-> TRUE, bytes |-> 0]
    /\ chunk_i' = 0
    /\ pcA' = "chunk_head"
    /\ UNCHANGED <<runVars, dataVars>>
    /\ UNCHANGED <<excA, pipe, tokenizerA, modelA, response, generations,
                   stdoutA>>

\* for chunk in tqdm(response.iter_content(chunk_size=10000)); leaving the
\* with block closes the file
AcqChunkHead ==
    /\ pcA = "chunk_head"
    /\ \/ /\ chunk_i < Len(response)
          /\ chunk_i' = chunk_i + 1
          /\ file' = file
          /\ pcA' = "chunk_write"
       \/ /\ ~(chunk_i < Len(response))
          /\ chunk_i' = chunk_i
          /\ file' = [file EXCEPT !.open = FALSE]
          /\ pcA' = "print"
    /\ UNCHANGED <<runVars, dataVars>>
    /\ UNCHANGED <<excA, pipe, tokenizerA, modelA, response, generations,
                   stdoutA>>

\* if chunk: f.write(chunk)
AcqChunkWrite ==
    /\ pcA = "chunk_write"
    /\ \/ /\ response[chunk_i] # 0
          /\ file' = [file EXCEPT !.bytes = @ + response[chunk_i]]
       \/ /\ response[chunk_i] = 0
          /\ file' = file
    /\ pcA' = "chunk_head"
    /\ UNCHANGED <<runVars, dataVars>>
    /\ UNCHANGED <<excA, pipe, tokenizerA, modelA, response, chunk_i,
                   generations, stdoutA>>

\* print("tutorial complete")
AcqPrint ==
    /\ pcA = "print"
    /\ stdoutA' = Append(stdoutA, "tutorial complete")
    /\ pcA' = "done"
    /\ UNCHANGED <<runVars, dataVars>>
    /\ UNCHANGED <<excA, pipe, tokenizerA, modelA, response, chunk_i, file,
                   generations>>

\* an exception in any cell ends the run; the with block closes the file
\* on the way out
AcqFail ==
    /\ pcA \notin {"done", "failed", "idle"}
    /\ excA' = "Exception"
    /\ file' = [file EXCEPT !.open = FALSE]
    /\ pcA' = "failed"
    /\ UNCHANGED <<runVars, dataVars>>
    /\ UNCHANGED <<pipe, tokenizerA, modelA, response, chunk_i, generations,
                   stdoutA>>

(* ============================ specifications =========================== *)

\* the fine-tuning notebook, run from its first cell
Init == InitRun /\ IdleData /\ IdleAcq
Next ==
    \/ LoadModel \/ DefineClassifier \/ LoadData \/ SetupLoaders
    \/ SetupOptimizer \/ EpochHead \/ TrainMode \/ TrainIter \/ BatchHead
    \/ ZeroGrad \/ TrainForward \/ ComputeLoss \/ Backward \/ OptimizerStep
    \/ PrintEpoch \/ EvalMode \/ EvalInit \/ EvalHead \/ EvalForward
    \/ EvalArgmax \/ EvalAccumulate \/ Accuracy \/ PrintAccuracy \/ Save
    \/ Fail
Spec == Init /\ [][Next]_vars

\* the same run; the interpreter executes the next statement whenever there
\* is one
FairSpec == Spec /\ WF_vars(Next)

\* a GlueDataset built from a raw split and used through len() and []
InitGlue == InitData /\ InitRun /\ IdleAcq
NextData == GlueDatasetInit \/ CallLen \/ CallGetItem
SpecData == InitGlue /\ [][NextData]_vars

\* the acquisition notebook, run from its first cell
InitNotebookA == InitAcq /\ InitRun /\ IdleData
NextAcq ==
    \/ AcqPipeline \/ AcqDirectLoad \/ AcqGet \/ AcqOpen \/ AcqChunkHead
    \/ AcqChunkWrite \/ AcqPrint \/ AcqFail
SpecAcq == InitNotebookA /\ [][NextAcq]_vars

\* the evaluation cell alone, entered as the training cell leaves the run
\* (here after one batch per epoch), on evaluation sets of up to MaxEval
\* examples whose labels alternate
AlternatingLabels(n, k) == [i \in 1 .. n |-> (i + k) % 2]
LastTrainBatch == [epoch |-> num_epochs - 1, lo |-> 1, hi |-> batch_size, eval |-> FALSE]
InitAfterTraining ==
    /\ pc = "eval_mode"
    /\ exc = "none"
    /\ train_len = batch_size
    /\ \E n \in 0 .. MaxEval : \E k \in 0 .. 1 :
          eval_labels = AlternatingLabels(n, k)
    /\ loaders = TRUE
    /\ mode = [base |-> TRUE, head |-> TRUE]
    /\ base_params \in ParamVals
    /\ head_params \in ParamVals
    /\ grads = <<LastTrainBatch>>
    /\ opt_steps = num_epochs
    /\ epoch = num_epochs - 1
    /\ it_pos = batch_size
    /\ batch = LastTrainBatch
    /\ logits = [of |-> LastTrainBatch, dropout |-> TRUE, grad_fn |-> TRUE]
    /\ loss = [of |-> LastTrainBatch, val |-> "low", grad_fn |-> TRUE]
    /\ predictions = <<>>
    /\ eval_seen = <<>>
    /\ total_eval_accuracy = 0
    /\ avg_accuracy = <<>>
    /\ stdout = [i \in 1 .. num_epochs |-> [kind |-> "epoch", a |-> i, b |-> 0]]
    /\ saved_file = <<>>
InitEval == InitAfterTraining /\ IdleData /\ IdleAcq
NextEval ==
    \/ EvalMode \/ EvalInit \/ EvalHead \/ EvalForward \/ EvalArgmax
    \/ EvalAccumulate \/ Accuracy \/ PrintAccuracy \/ Fail
SpecEval == InitEval /\ [][NextEval]_vars

(* =============================== claims ================================ *)

CeilDiv(a, b) == IF a % b = 0 THEN a \div b ELSE a \div b + 1

\* the training batches drawn so far, at a state where the training loader
\* is being iterated
BatchesDrawn == epoch * CeilDiv(train_len, batch_size) + CeilDiv(it_pos, batch_size)

EpochLine(k) == [kind |-> "epoch", a |-> k, b |-> 0]

TrainingDone ==
    pc \in {"eval_mode", "eval_init", "eval_head", "eval_forward", "eval_argmax",
            "eval_accumulate", "accuracy", "print_accuracy", "save", "done"}

(* C1: within a training batch the statements run in the order zero_grad,   *)
(* forward, cross-entropy loss, backward, optimizer step: at the forward    *)
(* pass the gradients are clear, the loss is computed from the logits of    *)
(* the current batch, back-propagation starts from the loss of the current  *)
(* batch with clear gradients, and an optimizer step is only ever applied   *)
(* (one at a time) when the gradients hold exactly one backward pass, that  *)
(* of the current batch; a new training batch is drawn only when every      *)
(* batch drawn before has had its optimizer step.                           *)
C1_Order ==
    /\ pc = "forward" => grads = <<>> /\ ~batch.eval
    /\ pc = "loss" => grads = <<>> /\ logits.of = batch /\ logits.grad_fn
    /\ pc = "backward" => grads = <<>> /\ logits.of = batch /\ loss.of = batch
    /\ pc = "step" => grads = <<batch>> /\ logits.of = batch /\ loss.of = batch
C1_StepOnlyAfterBackward ==
    opt_steps' # opt_steps =>
        /\ opt_steps' = opt_steps + 1
        /\ pc = "step"
        /\ grads = <<batch>> /\ logits.of = batch /\ loss.of = batch
        /\ ~batch.eval
C1_NextBatchAfterStep ==
    (batch' # batch /\ ~batch'.eval) => opt_steps = BatchesDrawn
C1_TrainingBatchOrder ==
    /\ []C1_Order
    /\ [][C1_StepOnlyAfterBackward]_vars
    /\ [][C1_NextBatchAfterStep]_vars
C1_Witness ==
    pc = "step" /\ epoch = 1 /\ batch.lo = batch_size + 1 /\ grads = <<batch>>

(* C2: unless a statement raises, the training loop ends after exactly      *)
(* num_epochs = 3 epochs whatever the losses: once the run is past the      *)
(* training cell it has applied exactly 3 * ceil(N / 8) optimizer steps     *)
(* for N = len(train_dataset) and has printed "Epoch k completed." for      *)
(* k = 1, 2, 3 in that order; the epoch lines printed at any time are       *)
(* 1, 2, ... in order; and every run gets past the training cell or fails.  *)
C2_Counts ==
    /\ \A i \in 1 .. Min(Len(stdout), num_epochs) : stdout[i] = EpochLine(i)
    /\ TrainingDone =>
          /\ opt_steps = 3 * CeilDiv(train_len, 8)
          /\ Len(stdout) >= 3
          /\ SubSeq(stdout, 1, 3) = <<EpochLine(1), EpochLine(2), EpochLine(3)>>
          /\ epoch = 2
C2_TrainingTerminates ==
    /\ []C2_Counts
    /\ <>(TrainingDone \/ pc = "failed")
C2_Witness ==
    pc = "eval_mode" /\ train_len = 17 /\ opt_steps = 9 /\ loss.val = "nan"

(* C3: the accuracy the evaluation loop computes is a ratio in [0, 1]: its  *)
(* denominator is the (non-zero) size of the evaluation dataset and its     *)
(* numerator the number of examples whose predicted label equals the true   *)
(* label, every example having been predicted exactly once.                 *)
C3_AccuracyIsRatio ==
    avg_accuracy # <<>> =>
        /\ avg_accuracy[2] = Len(eval_labels)
        /\ avg_accuracy[2] > 0
        /\ 0 <= avg_accuracy[1] /\ avg_accuracy[1] <= avg_accuracy[2]
        /\ \A i \in 1 .. Len(eval_labels) : Len(eval_seen[i]) = 1
        /\ avg_accuracy[1] =
              Cardinality({i \in 1 .. Len(eval_labels) :
                              eval_seen[i] = <<eval_labels[i]>>})
C3_Witness ==
    /\ avg_accuracy # <<>>
    /\ Len(eval_labels) = batch_size + 1
    /\ avg_accuracy[1] = 5
    /\ eval_seen[batch_size + 1] = <<eval_labels[batch_size + 1]>>

(* C4: once a GlueDataset is built, its length is the number of input       *)
(* records, len() returns it, and dataset[i] for 0 <= i < len carries the   *)
(* label of input record i and the tokenization of sentence pair i.         *)
C4_PositionPreserving ==
    pcD = "built" =>
        /\ GlueLen(ds_inputs) = Len(raw_datasets.label)
        /\ Len(ds_labels) = Len(raw_datasets.label)
        /\ ds_result.op = "len" => ds_result.len = Len(raw_datasets.label)
        /\ (ds_result.op = "getitem" /\ ds_result.idx >= 0) =>
              LET i == ds_result.idx + 1
                  t == Tokenizer(raw_datasets.sentence1[i],
                                 raw_datasets.sentence2[i], max_length)
              IN  /\ ds_result.item[1].labels = raw_datasets.label[i]
                  /\ ds_result.item[1].input_ids = t.input_ids[1]
                  /\ ds_result.item[1].attention_mask = t.attention_mask[1]
C4_Witness ==
    /\ pcD = "built"
    /\ Len(raw_datasets.label) = 2
    /\ raw_datasets.label[1] # raw_datasets.label[2]
    /\ raw_datasets.sentence1[1] # raw_datasets.sentence1[2]
    /\ ds_result.op = "getitem" /\ ds_result.idx = 1

(* C5: every tokenized record a GlueDataset stores is one row of exactly    *)
(* max_length ids and one row of exactly max_length mask entries, and the   *)
(* record dataset[i] returns has an id sequence and a mask of length        *)
(* max_length, whether the sentence pair is shorter or longer than that.    *)
C5_FixedLength ==
    pcD = "built" =>
        /\ \A k \in 1 .. Len(ds_inputs) :
              /\ Len(ds_inputs[k].input_ids) = 1
              /\ Len(ds_inputs[k].attention_mask) = 1
              /\ Len(ds_inputs[k].input_ids[1]) = max_length
              /\ Len(ds_inputs[k].attention_mask[1]) = max_length
        /\ ds_result.op = "getitem" =>
              /\ Len(ds_result.item[1].input_ids) = max_length
              /\ Len(ds_result.item[1].attention_mask) = max_length
C5_Witness ==
    /\ pcD = "built"
    /\ max_length = 3
    /\ Len(raw_datasets.label) = 2
    /\ Len(raw_datasets.sentence1[1]) + Len(raw_datasets.sentence2[1]) < max_length
    /\ Len(raw_datasets.sentence1[2]) + Len(raw_datasets.sentence2[2]) > max_length
    /\ ds_result.op = "getitem" /\ ds_result.idx = 1
    /\ ds_result.item[1].attention_mask = <<1, 1, 1>>

(* C6: no step of the evaluation cell changes a parameter of the base       *)
(* model or of the head, the accumulated gradients or the optimizer's step  *)
(* count, and the logits it computes carry no autograd graph.               *)
C6_ParamsUntouched ==
    /\ UNCHANGED <<base_params, head_params, grads, opt_steps>>
    /\ logits' # logits => ~logits'.grad_fn
C6_EvalReadOnly == [][C6_ParamsUntouched]_vars
C6_Witness ==
    /\ pc = "print_accuracy"
    /\ Len(eval_labels) = batch_size + 1
    /\ base_params # head_params

(* C7 as stated: the saved file holds the head's parameters and nothing     *)
(* else.                                                                    *)
C7_FileHoldsHeadOnly ==
    saved_file # <<>> =>
        /\ DOMAIN saved_file[1] = {"classifier"}
        /\ saved_file[1].classifier = head_params

(* C7 as amended: the saved file holds the parameter state of the whole     *)
(* wrapper, the base model's parameters and the head's, as the last         *)
(* optimizer step left them: the save step writes the current state_dict,   *)
(* and after construction the parameters change by optimizer steps only.    *)
C7_SaveWritesStateDict ==
    /\ saved_file' # saved_file =>
          /\ TrainingDone
          /\ saved_file' = <<[base_model |-> base_params, classifier |-> head_params]>>
    /\ (pc \notin {"load_model", "define_classifier"} /\ opt_steps' = opt_steps) =>
          UNCHANGED <<base_params, head_params>>
C7_FileHoldsWholeModel == [][C7_SaveWritesStateDict]_vars
C7_Witness ==
    /\ pc = "done"
    /\ opt_steps = 9
    /\ saved_file = <<[base_model |-> 1, classifier |-> 0]>>

(* C8: an exception ends the run: once one has been raised the run is at    *)
(* "failed" and no variable of the run ever changes again, so the failed    *)
(* statement is not retried, no further batch or epoch is processed, and    *)
(* evaluation and the save step are not reached.                            *)
C8_Stopped == exc # "none" => UNCHANGED vars
C8_FailureIsFatal ==
    /\ [](exc # "none" => pc = "failed")
    /\ [][C8_Stopped]_vars
C8_Witness ==
    /\ pc = "failed" /\ exc = "Exception"
    /\ epoch = 1 /\ opt_steps = 4 /\ grads = <<batch>>
    /\ saved_file = <<>> /\ avg_accuracy = <<>>

(* C9 as stated: when the acquisition notebook completes, a text            *)
(* generation has been run with an acquired model.                          *)
C9_GenerationBeforeComplete == pcA = "done" => generations >= 1

RECURSIVE SumSeq(_)
SumSeq(q) == IF q = <<>> THEN 0 ELSE q[1] + SumSeq(Tail(q))

(* C9 as amended: the acquisition notebook runs the three acquisitions one  *)
(* after the other (the pipeline is built, tokenizer and model are loaded,  *)
(* the file is downloaded in full and closed) and then prints "tutorial     *)
(* complete"; no text generation is run at any point.                       *)
C9_AcquireOnly ==
    /\ generations = 0
    /\ pcA = "done" =>
          /\ pipe /\ tokenizerA /\ modelA
          /\ file.exists /\ ~file.open
          /\ file.bytes = SumSeq(response)
          /\ stdoutA = <<"tutorial complete">>
C9_Witness ==
    /\ pcA = "done"
    /\ Len(response) = 3
    /\ file.bytes = chunk_size + 1

(* C10: every forward pass of the training loop runs with the base model    *)
(* and the classifier in training mode and applies dropout, every forward   *)
(* pass of the evaluation loop runs with both in evaluation mode and        *)
(* applies none, and the mode changes only at model.train() at the start    *)
(* of an epoch and at model.eval() before the evaluation loop (and at the   *)
(* construction of the two modules).                                        *)
C10_Modes ==
    /\ pc \in {"forward", "loss", "backward", "step"} => mode.head /\ mode.base
    /\ pc \in {"eval_forward", "eval_argmax", "eval_accumulate"} =>
          ~mode.head /\ ~mode.base
    /\ logits # NoLogits => logits.dropout = ~logits.of.eval
C10_ModeChange ==
    mode' # mode => pc \in {"load_model", "define_classifier", "train_mode", "eval_mode"}
C10_DropoutOnlyInTraining ==
    /\ []C10_Modes
    /\ [][C10_ModeChange]_vars
C10_Witness ==
    /\ pc = "eval_accumulate"
    /\ logits.of.eval /\ ~logits.dropout
    /\ opt_steps = 6

====
